---- MODULE Spec2Model ----
(***************************************************************************)
(* Model of the persistence / state-tracking subsystem of                  *)
(* whakoom_webscrapper: SQLManager (migration runner, repository),         *)
(* WhakoomWebscrapperPipeline (retrying item writer) and                   *)
(* PublicationsSpider (crawl status tracking).                             *)
(***************************************************************************)
EXTENDS Integers, Sequences, FiniteSets, TLC

(***************************************************************************)
(* Bounds of the model.                                                    *)
(***************************************************************************)
MaxFiles == 3        \* migration files in the directory
MaxId == 2           \* entity ids are 1..MaxId
MaxLog == 6          \* rows of scraping_log
MaxFaults == 2       \* transient store errors the environment injects
MaxCrawlLog == 9     \* rows of scraping_log over a sequence of crawl runs
MaxTitlesOnPage == 1 \* titles linked from one list page
MaxRuns == 3         \* crawl processes started one after another
MaxRows == 2         \* rows in the repository's tables
MaxQueryFiles == 2   \* entries of the named-query directory

(***************************************************************************)
(* Text helpers.  A filename is a sequence of one-character strings.       *)
(***************************************************************************)
\* Code point of a character (str.__lt__ compares code points).
Ord(c) ==
    CASE c = "." -> 46
      [] c = "0" -> 48
      [] c = "1" -> 49
      [] c = "2" -> 50
      [] c = "3" -> 51
      [] c = "_" -> 95
      [] c = "a" -> 97
      [] c = "b" -> 98
      [] c = "c" -> 99
      [] c = "d" -> 100
      [] c = "l" -> 108
      [] c = "q" -> 113
      [] c = "s" -> 115
      [] c = "t" -> 116
      [] c = "x" -> 120

\* Python's str < str: first differing code point decides, a proper prefix is smaller.
RECURSIVE StrLess(_, _)
StrLess(a, b) ==
    IF b = <<>> THEN FALSE
    ELSE IF a = <<>> THEN TRUE
    ELSE IF Head(a) = Head(b) THEN StrLess(Tail(a), Tail(b))
    ELSE Ord(Head(a)) < Ord(Head(b))

DotSql == <<".", "s", "q", "l">>
DotTxt == <<".", "t", "x", "t">>

\* str.endswith
EndsWith(s, suf) ==
    /\ Len(s) >= Len(suf)
    /\ SubSeq(s, Len(s) - Len(suf) + 1, Len(s)) = suf

\* Index of the first "_" in s, 0 when there is none.
RECURSIVE FirstUnderscore(_, _)
FirstUnderscore(s, i) ==
    IF i > Len(s) THEN 0
    ELSE IF s[i] = "_" THEN i
    ELSE FirstUnderscore(s, i + 1)

NoMeta == [ok |-> FALSE, version |-> <<>>, name |-> <<>>]

\* Index of the last "_" in s, 0 when there is none.
RECURSIVE LastUnderscore(_, _)
LastUnderscore(s, i) ==
    IF i < 1 THEN 0
    ELSE IF s[i] = "_" THEN i
    ELSE LastUnderscore(s, i - 1)

\* A parser that splits the stem at its last "_".
RSplit_parse_migration_filename(filename) ==
    IF ~EndsWith(filename, DotSql) THEN NoMeta
    ELSE LET stem == SubSeq(filename, 1, Len(filename) - 4)
             u == LastUnderscore(stem, Len(stem))
         IN  IF u = 0 THEN NoMeta
             ELSE LET version == SubSeq(stem, 1, u - 1)
                      name == SubSeq(stem, u + 1, Len(stem))
                  IN  IF version = <<>> \/ name = <<>> THEN NoMeta
                      ELSE [ok |-> TRUE, version |-> version, name |-> name]

\* SQLManager._parse_migration_filename: (version, name) or None.
_parse_migration_filename(filename) ==
    IF ~EndsWith(filename, DotSql) THEN NoMeta
    ELSE LET stem == SubSeq(filename, 1, Len(filename) - 4)
             u == FirstUnderscore(stem, 1)
         IN  IF u = 0 THEN NoMeta
             ELSE LET version == SubSeq(stem, 1, u - 1)
                      name == SubSeq(stem, u + 1, Len(stem))
                  IN  IF version = <<>> \/ name = <<>> THEN NoMeta
                      ELSE [ok |-> TRUE, version |-> version, name |-> name]

(***************************************************************************)
(* Migration files.  A body is the sequence of the file's lines, each line *)
(* one of: "up"      the marker line  -- Up                                *)
(*         "down"    the marker line  -- Down                              *)
(*         "comment" an ordinary SQL comment line  -- ...                  *)
(*         "ok"      a statement SQLite executes successfully              *)
(*         "bad"     a statement SQLite rejects (sqlite3.Error)            *)
(***************************************************************************)
ValidNames ==
    { <<"1", "_", "a">> \o DotSql,        \* 1_a.sql
      <<"2", "_", "a", "_", "b">> \o DotSql,   \* 2_a_b.sql (name with "_")
      <<"1", "0", "_", "c">> \o DotSql,   \* 10_c.sql
      <<"1", "_", "b">> \o DotSql }       \* 1_b.sql   (version 1 again)

OtherNames ==
    { <<"1">> \o DotSql,                  \* 1.sql     (no separator)
      <<"_", "a">> \o DotSql,             \* _a.sql    (empty version)
      <<"3", "_">> \o DotSql,             \* 3_.sql    (empty name)
      <<"0", "_", "x">> \o DotTxt }       \* 0_x.txt   (not a migration file)

Bodies ==
    { <<"up", "ok", "ok">>,
      <<"up", "ok", "bad">>,
      <<"ok">>,
      <<"up", "ok", "comment", "ok", "down", "ok">> }

\* The files that may appear in the directory.  The body of a file whose
\* name is rejected or skipped is never opened, so one body suffices there.
MigrationFiles ==
    (ValidNames \X Bodies) \cup (OtherNames \X {<<"up", "ok">>})

VARIABLES
    dir,          \* migrations directory: filename -> body
    tableExists,  \* the migrations (ledger) table exists in the store
    ledger,       \* rows of the migrations table, in insertion (id) order
    schema,       \* committed schema changes: set of <<filename, line>>
    mlast,        \* record of the last migration-runner operation
    procs         \* the processes running apply_migrations() side by side

mvars == <<dir, tableExists, ledger, schema, mlast, procs>>

Versions(led) == {led[i].version : i \in 1..Len(led)}

LineStartsWithDashes(k) == k \in {"up", "down", "comment"}

\* Line of the first "-- Up" marker in body at or after i, 0 when there is none.
RECURSIVE FirstUp(_, _)
FirstUp(body, i) ==
    IF i > Len(body) THEN 0
    ELSE IF body[i] = "up" THEN i
    ELSE FirstUp(body, i + 1)

\* First line j >= i at which the lookahead \n--.*Down succeeds: the line
\* starts with "--" and "Down" occurs on it or anywhere after it (DOTALL).
RECURSIVE FirstStop(_, _)
FirstStop(body, i) ==
    IF i > Len(body) THEN Len(body) + 1
    ELSE IF /\ LineStartsWithDashes(body[i])
            /\ \E k \in i..Len(body) : body[k] = "down"
         THEN i
    ELSE FirstStop(body, i + 1)

\* re.search(r"--\s*Up\s*\n(.*?)(?=\n--.*Down|$)", sql_content, re.DOTALL):
\* the lines of group(1), as the set of line numbers first..last.
\* The newline that ends the marker line is consumed by the pattern, so the
\* lookahead can first succeed in front of the second line after the marker.
UpMatch(body) ==
    LET u == FirstUp(body, 1)
    IN  IF u = 0 THEN [match |-> FALSE, first |-> 0, last |-> 0]
        ELSE [match |-> TRUE, first |-> u + 1, last |-> FirstStop(body, u + 2) - 1]

\* The statements of the script handed to executescript, as line numbers
\* (marker and comment lines are SQL comments to SQLite).
RECURSIVE ScriptStatements(_, _, _)
ScriptStatements(body, i, last) ==
    IF i > last \/ i > Len(body) THEN <<>>
    ELSE IF body[i] \in {"ok", "bad"}
         THEN <<i>> \o ScriptStatements(body, i + 1, last)
    ELSE ScriptStatements(body, i + 1, last)

\* sorted(names): ascending by str comparison.
MinName(S) == CHOOSE a \in S : \A b \in S \ {a} : StrLess(a, b)

RECURSIVE Sorted(_)
Sorted(S) ==
    IF S = {} THEN <<>>
    ELSE LET a == MinName(S) IN <<a>> \o Sorted(S \ {a})

(***************************************************************************)
(* MigrationRunner (SQLManager).                                           *)
(***************************************************************************)
\* SQLManager.get_applied_migrations: None stands for the sqlite3.Error
\* raised by the SELECT when the ledger table does not exist.
get_applied_migrations(exists, led) ==
    IF exists THEN [raised |-> FALSE, versions |-> Versions(led)]
    ELSE [raised |-> TRUE, versions |-> {}]

\* The loop of get_pending_migrations over sorted(os.listdir(...)).
RECURSIVE IgnoreApplied_PendingLoop(_, _, _)
IgnoreApplied_PendingLoop(names, applied, acc) ==
    IF names = <<>> THEN [raised |-> FALSE, pending |-> acc]
    ELSE LET filename == Head(names)
             meta == _parse_migration_filename(filename)
         IN  IF ~EndsWith(filename, DotSql)
             THEN IgnoreApplied_PendingLoop(Tail(names), applied, acc)
             ELSE IF ~meta.ok THEN [raised |-> TRUE, pending |-> <<>>]
             ELSE IgnoreApplied_PendingLoop(Tail(names), applied,
                      Append(acc, [version |-> meta.version, name |-> meta.name,
                                   file_path |-> filename]))

RECURSIVE SkipInvalid_PendingLoop(_, _, _)
SkipInvalid_PendingLoop(names, applied, acc) ==
    IF names = <<>> THEN [raised |-> FALSE, pending |-> acc]
    ELSE LET filename == Head(names)
             meta == _parse_migration_filename(filename)
         IN  IF ~EndsWith(filename, DotSql) \/ ~meta.ok
             THEN SkipInvalid_PendingLoop(Tail(names), applied, acc)
             ELSE IF meta.version \in applied
             THEN SkipInvalid_PendingLoop(Tail(names), applied, acc)
             ELSE SkipInvalid_PendingLoop(Tail(names), applied,
                      Append(acc, [version |-> meta.version, name |-> meta.name,
                                   file_path |-> filename]))

RECURSIVE PendingLoop(_, _, _)
PendingLoop(names, applied, acc) ==
    IF names = <<>> THEN [raised |-> FALSE, pending |-> acc]
    ELSE LET filename == Head(names)
             meta == _parse_migration_filename(filename)
         IN  IF ~EndsWith(filename, DotSql)
             THEN PendingLoop(Tail(names), applied, acc)
             ELSE IF ~meta.ok THEN [raised |-> TRUE, pending |-> <<>>]
             ELSE IF meta.version \in applied
             THEN PendingLoop(Tail(names), applied, acc)
             ELSE PendingLoop(Tail(names), applied,
                      Append(acc, [version |-> meta.version, name |-> meta.name,
                                   file_path |-> filename]))

\* SQLManager.get_pending_migrations on directory d and the store (exists, led).
get_pending_migrations(d, exists, led) ==
    LET applied == get_applied_migrations(exists, led)
    IN  IF applied.raised THEN [raised |-> TRUE, pending |-> <<>>]
        ELSE PendingLoop(Sorted(DOMAIN d), applied.versions, <<>>)

\* cursor.executescript(up_script): the statements run one by one in
\* autocommit mode, each committed as it succeeds; the first rejected
\* statement raises.  st = [schema, executed, raised].
RECURSIVE executescript(_, _, _, _, _)
executescript(file, body, stmts, led, st) ==
    IF stmts = <<>> THEN st
    ELSE LET ln == Head(stmts)
             ev == [file |-> file, line |-> ln,
                    applied |-> _parse_migration_filename(file).version \in Versions(led)]
         IN  IF body[ln] = "bad"
             THEN [st EXCEPT !.executed = Append(@, ev), !.raised = TRUE]
             ELSE executescript(file, body, Tail(stmts), led,
                      [st EXCEPT !.schema = @ \cup {<<file, ln>>},
                                 !.executed = Append(@, ev)])

\* The for loop of apply_migrations over the pending list, from index i.
\* r = [ledger, schema, executed, raised, failedAt, failKind].
RECURSIVE ContinueAfterError_ApplyLoop(_, _, _, _)
ContinueAfterError_ApplyLoop(d, pending, i, r) ==
    IF i > Len(pending) THEN r
    ELSE LET m == pending[i]
             body == d[m.file_path]
             up == UpMatch(body)
         IN  IF ~up.match THEN ContinueAfterError_ApplyLoop(d, pending, i + 1, r)
             ELSE LET run == executescript(m.file_path, body,
                                 ScriptStatements(body, up.first, up.last), r.ledger,
                                 [schema |-> r.schema, executed |-> r.executed,
                                  raised |-> FALSE])
                      r1 == [r EXCEPT !.schema = run.schema, !.executed = run.executed]
                  IN  IF run.raised \/ m.version \in Versions(r.ledger)
                      THEN ContinueAfterError_ApplyLoop(d, pending, i + 1,
                               [r1 EXCEPT !.raised = TRUE, !.failedAt = i,
                                          !.failKind = IF run.raised THEN "script" ELSE "insert"])
                      ELSE ContinueAfterError_ApplyLoop(d, pending, i + 1,
                               [r1 EXCEPT !.ledger = Append(@, [version |-> m.version,
                                                                name |-> m.name])])

RECURSIVE ApplyLoop(_, _, _, _)
ApplyLoop(d, pending, i, r) ==
    IF i > Len(pending) THEN r
    ELSE LET m == pending[i]
             body == d[m.file_path]
             up == UpMatch(body)
         IN  IF ~up.match THEN ApplyLoop(d, pending, i + 1, r)
             ELSE LET run == executescript(m.file_path, body,
                                 ScriptStatements(body, up.first, up.last), r.ledger,
                                 [schema |-> r.schema, executed |-> r.executed,
                                  raised |-> FALSE])
                      r1 == [r EXCEPT !.schema = run.schema, !.executed = run.executed]
                  IN  IF run.raised
                      THEN \* except sqlite3.Error: conn.rollback(); raise RuntimeError
                           [r1 EXCEPT !.raised = TRUE, !.failedAt = i, !.failKind = "script"]
                      ELSE IF m.version \in Versions(r.ledger)
                      THEN \* UNIQUE(version) rejects the INSERT; only it is rolled back
                           [r1 EXCEPT !.raised = TRUE, !.failedAt = i, !.failKind = "insert"]
                      ELSE ApplyLoop(d, pending, i + 1,
                               [r1 EXCEPT !.ledger = Append(@, [version |-> m.version,
                                                                name |-> m.name])])

NoRun(op) ==
    [op |-> op, raised |-> FALSE, pending |-> <<>>, executed |-> <<>>,
     failedAt |-> 0, failKind |-> "none",
     ledgerBefore |-> ledger, schemaBefore |-> schema, tableBefore |-> tableExists,
     afterCleanApply |-> (mlast.op = "apply" /\ ~mlast.raised)]

\* A new migration file appears in the directory.
AddFile ==
    \E fb \in MigrationFiles :
      LET f == fb[1]
          b == fb[2]
      IN
        /\ f \notin DOMAIN dir
        /\ Cardinality(DOMAIN dir) < MaxFiles
        /\ dir' = [x \in DOMAIN dir \cup {f} |-> IF x = f THEN b ELSE dir[x]]
        /\ mlast' = NoRun("add")
        /\ UNCHANGED <<tableExists, ledger, schema, procs>>

\* SQLManager.create_migrations_table: CREATE TABLE IF NOT EXISTS migrations.
create_migrations_table ==
    /\ tableExists' = TRUE
    /\ mlast' = NoRun("create")
    /\ UNCHANGED <<dir, ledger, schema, procs>>

\* A caller asks for the pending migrations.
GetPending ==
    LET res == get_pending_migrations(dir, tableExists, ledger)
    IN  /\ mlast' = [NoRun("pending") EXCEPT !.raised = res.raised,
                                             !.pending = res.pending]
        /\ UNCHANGED <<dir, tableExists, ledger, schema, procs>>

\* SQLManager.apply_migrations.
apply_migrations ==
    LET res == get_pending_migrations(dir, TRUE, ledger)
        r0 == [ledger |-> ledger, schema |-> schema, executed |-> <<>>,
               raised |-> res.raised, failedAt |-> 0, failKind |-> "none"]
        r == IF res.raised THEN r0 ELSE ApplyLoop(dir, res.pending, 1, r0)
    IN  /\ tableExists' = TRUE
        /\ ledger' = r.ledger
        /\ schema' = r.schema
        /\ mlast' = [NoRun("apply") EXCEPT !.raised = r.raised,
                                           !.pending = res.pending,
                                           !.executed = r.executed,
                                           !.failedAt = r.failedAt,
                                           !.failKind = r.failKind]
        /\ UNCHANGED <<dir, procs>>

(***************************************************************************)
(* Two processes that call apply_migrations() on the same store and the    *)
(* same directory.  Each SQL statement (and each commit) is one step; the  *)
(* Python code between two statements touches only the process's own       *)
(* memory.                                                                 *)
(***************************************************************************)
Procs == {1, 2}

\* A process before its call: where it stands, its pending list, the index
\* of the migration it works on, the statements of the script still to run,
\* and the statements it has executed successfully.
IdleProc ==
    [pc |-> "idle", pending |-> <<>>, i |-> 0, stmts |-> <<>>, ran |-> <<>>]

\* self.create_migrations_table(), the first call of apply_migrations.
proc_create_migrations_table ==
    \E p \in Procs :
        /\ procs[p].pc = "idle"
        /\ tableExists' = TRUE
        /\ procs' = [procs EXCEPT ![p].pc = "created"]
        /\ UNCHANGED <<dir, ledger, schema, mlast>>

\* pending = self.get_pending_migrations(): the ledger as it is now.
proc_get_pending_migrations ==
    \E p \in Procs :
        LET res == get_pending_migrations(dir, tableExists, ledger)
        IN  /\ procs[p].pc = "created"
            /\ procs' = [procs EXCEPT ![p] =
                  IF res.raised THEN [@ EXCEPT !.pc = "raised"]
                  ELSE [@ EXCEPT !.pc = "loop", !.pending = res.pending, !.i = 1]]
            /\ UNCHANGED <<dir, tableExists, ledger, schema, mlast>>

\* The head of the for loop: read the file, search the Up section, open the
\* connection.  A script without statements goes straight to the INSERT.
proc_next_migration ==
    \E p \in Procs :
        LET me == procs[p]
        IN  /\ me.pc = "loop"
            /\ procs' = [procs EXCEPT ![p] =
                  IF me.i > Len(me.pending) THEN [@ EXCEPT !.pc = "done"]
                  ELSE LET body == dir[me.pending[me.i].file_path]
                           up == UpMatch(body)
                           stmts == ScriptStatements(body, up.first, up.last)
                       IN  IF ~up.match THEN [@ EXCEPT !.i = @ + 1]
                           ELSE [@ EXCEPT !.stmts = stmts,
                                          !.pc = IF stmts = <<>> THEN "insert"
                                                 ELSE "script"]]
            /\ UNCHANGED <<dir, tableExists, ledger, schema, mlast>>

\* One statement of cursor.executescript(up_script), committed as it
\* succeeds.  A statement SQLite rejects raises; a statement whose effect is
\* already in the schema either succeeds again (CREATE ... IF NOT EXISTS,
\* INSERT) or is rejected (CREATE TABLE), as the script decides.
proc_statement ==
    \E p \in Procs, again \in BOOLEAN :
        LET me == procs[p]
            file == me.pending[me.i].file_path
            ln == Head(me.stmts)
            ok == /\ dir[file][ln] = "ok"
                  /\ (<<file, ln>> \in schema => again)
        IN  /\ me.pc = "script"
            /\ (<<file, ln>> \notin schema => again)
            /\ schema' = IF ok THEN schema \cup {<<file, ln>>} ELSE schema
            /\ procs' = [procs EXCEPT ![p] =
                  IF ~ok THEN [@ EXCEPT !.pc = "raised"]
                  ELSE [@ EXCEPT !.ran = Append(@, <<file, ln>>),
                                 !.stmts = Tail(@),
                                 !.pc = IF Tail(me.stmts) = <<>> THEN "insert"
                                        ELSE "script"]]
            /\ UNCHANGED <<dir, tableExists, ledger, mlast>>

\* INSERT INTO migrations (version, name) and conn.commit(); UNIQUE(version)
\* rejects a version that is in the ledger by now: rollback, RuntimeError.
proc_insert_ledger_row ==
    \E p \in Procs :
        LET me == procs[p]
            mig == me.pending[me.i]
        IN  /\ me.pc = "insert"
            /\ IF mig.version \in Versions(ledger)
               THEN /\ procs' = [procs EXCEPT ![p].pc = "raised"]
                    /\ UNCHANGED ledger
               ELSE /\ ledger' = Append(ledger, [version |-> mig.version,
                                                 name |-> mig.name])
                    /\ procs' = [procs EXCEPT ![p].pc = "loop", ![p].i = @ + 1]
            /\ UNCHANGED <<dir, tableExists, schema, mlast>>

\* A migration file is put in the directory before either process starts.
proc_deploy_file ==
    /\ \A p \in Procs : procs[p].pc = "idle"
    /\ AddFile

(***************************************************************************)
(* The crawl store and the item pipeline (WhakoomWebscrapperPipeline).     *)
(***************************************************************************)
VARIABLES
    uniqueKeys,    \* the schema declares the entity keys UNIQUE / PRIMARY KEY
    lists,         \* rows of table lists, in insertion (id) order
    titles,        \* rows of table titles
    volumes,       \* rows of table volumes
    lists_titles,  \* rows of table lists_titles
    log,           \* rows of table scraping_log, in insertion order
    processed,     \* the pipeline's processed_*_ids sets
    faultsLeft,    \* transient store errors still to come
    plast,         \* record of the last process_item call
    run,           \* the crawl process: phase, spider name, mode
    requests,      \* requests scheduled and not yet answered
    outbox,        \* items yielded by the spider, not yet through the pipeline
    sp_processed,  \* PublicationsSpider.processed_list_ids
    workset,       \* record of the last _get_lists_to_process call
    childWork,     \* this run's child work per list: pages parsed, failures
    db,            \* a database of record tables, as SQLManager sees it
    rlast,         \* record of the last SQLManager call on db
    mgr            \* a SQLManager as configured: directories, query store

pvars == <<uniqueKeys, lists, titles, volumes, lists_titles, log, processed,
          faultsLeft, plast>>

cvars == <<run, requests, outbox, sp_processed, workset, childWork>>

rvars == <<db, rlast, mgr>>

vars == <<mvars, pvars, cvars, rvars>>

MInit ==
    /\ dir = <<>>
    /\ tableExists = FALSE
    /\ ledger = <<>>
    /\ schema = {}
    /\ mlast = [op |-> "none", raised |-> FALSE, pending |-> <<>>, executed |-> <<>>,
                failedAt |-> 0, failKind |-> "none",
                ledgerBefore |-> <<>>, schemaBefore |-> {}, tableBefore |-> FALSE,
                afterCleanApply |-> FALSE]
    /\ procs = [p \in Procs |-> IdleProc]

MNext ==
    \/ AddFile /\ UNCHANGED <<pvars, cvars, rvars>>
    \/ create_migrations_table /\ UNCHANGED <<pvars, cvars, rvars>>
    \/ GetPending /\ UNCHANGED <<pvars, cvars, rvars>>
    \/ apply_migrations /\ UNCHANGED <<pvars, cvars, rvars>>


\* max_retries and the first retry_delay of process_item.
max_retries == 3
retry_delay0 == 1

Ids == 1..MaxId

\* The items the spiders hand to the pipeline: ListsItem, TitlesItem,
\* VolumesItem (ref = title_id), TitlesListItem (id = list_id, ref = title_id)
\* and anything else (plain dicts, other classes).
Items ==
    [kind : {"list", "title"}, id : Ids, ref : {0}]
    \cup [kind : {"volume"}, id : Ids, ref : {1}]
    \cup [kind : {"rel"}, id : Ids, ref : Ids]
    \cup [kind : {"unknown"}, id : {0}, ref : {0}]

\* Where a transient store error (database is locked, I/O error) strikes in
\* one attempt: 0 nowhere, 1 the "started" log write, 2 the insert, 3 the
\* "success" log write.
FaultPoints == 0..3

LogEntry(name, op, entity, status, msg) ==
    [scrapper_name |-> name, operation_type |-> op, entity_id |-> entity,
     status |-> status, error_message |-> msg]

\* A logger that keeps one row and rewrites it.
Overwrite_log_scraping_operation(st, name, op, entity, status, msg) ==
    [st EXCEPT !.log = IF @ = <<>> THEN <<LogEntry(name, op, entity, status, msg)>>
                       ELSE [@ EXCEPT ![Len(@)] = LogEntry(name, op, entity, status, msg)]]

\* A logger that also stamps the entry's status on the list it names.
Marking_log_scraping_operation(st, name, op, entity, status, msg) ==
    [st EXCEPT !.log = Append(@, LogEntry(name, op, entity, status, msg)),
               !.lists = [i \in DOMAIN @ |->
                             IF @[i].list_id = entity
                             THEN [@[i] EXCEPT !.scrape_status = status]
                             ELSE @[i]]]

\* SQLManager.log_scraping_operation: one INSERT INTO scraping_log.
log_scraping_operation(st, name, op, entity, status, msg) ==
    [st EXCEPT !.log = Append(@, LogEntry(name, op, entity, status, msg))]

\* The rows of the item's table that carry the item's key.
KeyRows(st, item) ==
    CASE item.kind = "list" ->
            {i \in 1..Len(st.lists) : st.lists[i].list_id = item.id}
      [] item.kind = "title" ->
            {i \in 1..Len(st.titles) : st.titles[i].title_id = item.id}
      [] item.kind = "volume" ->
            {i \in 1..Len(st.volumes) : st.volumes[i].volume_id = item.id}
      [] item.kind = "rel" ->
            {i \in 1..Len(st.lists_titles) :
                /\ st.lists_titles[i].list_id = item.id
                /\ st.lists_titles[i].title_id = item.ref}
      [] OTHER -> {}

\* SQLManager.insert / insert_relationship: a plain INSERT INTO of the row.
\* With a UNIQUE key in the schema SQLite rejects a second row for the key.
insert(st, item, unique) ==
    IF unique /\ KeyRows(st, item) # {}
    THEN [st |-> st, err |-> "unique"]
    ELSE CASE item.kind = "list" ->
                 [st |-> [st EXCEPT !.lists = Append(@,
                             [id |-> Len(st.lists) + 1, list_id |-> item.id,
                              scrape_status |-> "pending"])],
                  err |-> "none"]
           [] item.kind = "title" ->
                 [st |-> [st EXCEPT !.titles = Append(@,
                             [title_id |-> item.id, scrape_status |-> "pending"])],
                  err |-> "none"]
           [] item.kind = "volume" ->
                 [st |-> [st EXCEPT !.volumes = Append(@,
                             [volume_id |-> item.id, title_id |-> item.ref])],
                  err |-> "none"]
           [] item.kind = "rel" ->
                 [st |-> [st EXCEPT !.lists_titles = Append(@,
                             [list_id |-> item.id, title_id |-> item.ref])],
                  err |-> "none"]

OpType(item) ==
    CASE item.kind = "list" -> "list_processing"
      [] item.kind = "title" -> "title_processing"
      [] item.kind = "volume" -> "volume_processing"
      [] item.kind = "rel" -> "list_title_processing"

\* self.processed_*_ids.add(...); _process_titles_list_item keeps no set.
AddProcessed(st, item) ==
    IF item.kind = "rel" THEN st
    ELSE [st EXCEPT !.processed[item.kind] = @ \cup {item.id}]

\* One attempt of the unit of work: the isinstance dispatch of process_item
\* and the _process_*_item handler it selects.  fp is the fault point.
ProcessUnit(st, item, name, unique, fp) ==
    IF item.kind = "unknown" THEN [st |-> st, err |-> "unknown_type"]
    ELSE IF fp = 1 THEN [st |-> st, err |-> "busy"]
    ELSE LET st1 == log_scraping_operation(st, name, OpType(item), item.id,
                                           "started", "")
         IN  IF fp = 2 THEN [st |-> st1, err |-> "busy"]
             ELSE LET ins == insert(st1, item, unique)
                  IN  IF ins.err # "none" THEN [st |-> st1, err |-> ins.err]
                      ELSE LET st2 == AddProcessed(ins.st, item)
                           IN  IF fp = 3 THEN [st |-> st2, err |-> "busy"]
                               ELSE [st |-> log_scraping_operation(st2, name,
                                                OpType(item), item.id, "success", ""),
                                     err |-> "none"]

\* The ways one attempt can end, over every place a transient error can
\* strike while the environment has errors left to inject.
Attempts(st, item, name, unique, budget) ==
    {ProcessUnit(st, item, name, unique, fp) :
        fp \in IF budget > 0 THEN FaultPoints ELSE {0}}

Cost(u) == IF u.err = "busy" THEN 1 ELSE 0

\* What the DropItem of the last attempt says:
\* f"Failed to process item after {max_retries} attempts: {e}".
DropItemMessage(e) == [attempts |-> max_retries, error |-> e]

\* The except branch of the last attempt: the item_failed audit write, then
\* raise DropItem.  The audit write is a store call like any other: when it
\* meets a store error, that error leaves process_item instead.
Exhausted(r, name, err) ==
    { [r EXCEPT !.outcome = "DropItem",
                !.st = log_scraping_operation(r.st, name, "item_failed", 0,
                                              "failed", err)] }
    \cup IF r.budget > 0
         THEN {[r EXCEPT !.outcome = "error", !.budget = @ - 1]}
         ELSE {}

\* The retry loop of process_item from the given attempt (0-based) on: the
\* set of ways the call can end.
\* r = [st, outcome, attempts, delays, errs, budget].
\* First, a loop that gives up at once on an item of unknown type, and a
\* loop that also sleeps after the last attempt.
RECURSIVE FatalTypeErrors_AttemptLoop(_, _, _, _, _, _)
FatalTypeErrors_AttemptLoop(item, name, unique, attempt, retry_delay, r) ==
    UNION { LET r1 == [r EXCEPT !.st = u.st, !.attempts = attempt + 1,
                                !.budget = @ - Cost(u)]
                r2 == [r1 EXCEPT !.errs = Append(@, u.err)]
            IN  IF u.err = "none" THEN {[r1 EXCEPT !.outcome = "returned"]}
                ELSE IF u.err = "unknown_type" THEN {[r2 EXCEPT !.outcome = "DropItem"]}
                ELSE IF attempt < max_retries - 1
                THEN FatalTypeErrors_AttemptLoop(item, name, unique, attempt + 1,
                                                 retry_delay * 2,
                                                 [r2 EXCEPT !.delays = Append(@, retry_delay)])
                ELSE Exhausted(r2, name, u.err)
          : u \in Attempts(r.st, item, name, unique, r.budget) }

RECURSIVE SleepAfterLast_AttemptLoop(_, _, _, _, _, _)
SleepAfterLast_AttemptLoop(item, name, unique, attempt, retry_delay, r) ==
    UNION { LET r1 == [r EXCEPT !.st = u.st, !.attempts = attempt + 1,
                                !.budget = @ - Cost(u)]
                r2 == [r1 EXCEPT !.errs = Append(@, u.err),
                                 !.delays = Append(@, retry_delay)]
            IN  IF u.err = "none" THEN {[r1 EXCEPT !.outcome = "returned"]}
                ELSE IF attempt < max_retries - 1
                THEN SleepAfterLast_AttemptLoop(item, name, unique, attempt + 1,
                                                retry_delay * 2, r2)
                ELSE Exhausted(r2, name, u.err)
          : u \in Attempts(r.st, item, name, unique, r.budget) }

RECURSIVE AttemptLoop(_, _, _, _, _, _)
AttemptLoop(item, name, unique, attempt, retry_delay, r) ==
    UNION { LET r1 == [r EXCEPT !.st = u.st, !.attempts = attempt + 1,
                                !.budget = @ - Cost(u)]
                r2 == [r1 EXCEPT !.errs = Append(@, u.err)]
            IN  IF u.err = "none" THEN {[r1 EXCEPT !.outcome = "returned"]}
                ELSE IF attempt < max_retries - 1
                THEN \* time.sleep(retry_delay); retry_delay *= 2
                     AttemptLoop(item, name, unique, attempt + 1, retry_delay * 2,
                                 [r2 EXCEPT !.delays = Append(@, retry_delay)])
                ELSE Exhausted(r2, name, u.err)
          : u \in Attempts(r.st, item, name, unique, r.budget) }

Store == [lists |-> lists, titles |-> titles, volumes |-> volumes,
          lists_titles |-> lists_titles, log |-> log, processed |-> processed]

\* WhakoomWebscrapperPipeline.process_item(item, spider), spider.name = name,
\* while the log has room for the entries of a whole call below cap.
process_item(name, item, cap) ==
    \E r \in AttemptLoop(item, name, uniqueKeys, 0, retry_delay0,
                 [st |-> Store, outcome |-> "none", attempts |-> 0,
                  delays |-> <<>>, errs |-> <<>>, budget |-> faultsLeft]) :
        /\ Len(log) + max_retries + 1 <= cap
        /\ lists' = r.st.lists
        /\ titles' = r.st.titles
        /\ volumes' = r.st.volumes
        /\ lists_titles' = r.st.lists_titles
        /\ log' = r.st.log
        /\ processed' = r.st.processed
        /\ faultsLeft' = r.budget
        /\ plast' = [item |-> item, outcome |-> r.outcome,
                     attempts |-> r.attempts, delays |-> r.delays,
                     errs |-> r.errs, logBefore |-> Len(log),
                     keyRowsBefore |-> Cardinality(KeyRows(Store, item))]
        /\ UNCHANGED uniqueKeys

NoItem == [kind |-> "unknown", id |-> 0, ref |-> 0]

PInit ==
    /\ uniqueKeys \in BOOLEAN
    /\ lists = <<>>
    /\ titles = <<>>
    /\ volumes = <<>>
    /\ lists_titles = <<>>
    /\ log = <<>>
    /\ processed = [list |-> {}, title |-> {}, volume |-> {}]
    /\ faultsLeft = MaxFaults
    /\ plast = [item |-> NoItem, outcome |-> "none", attempts |-> 0,
                delays |-> <<>>, errs |-> <<>>, logBefore |-> 0,
                keyRowsBefore |-> 0]

(***************************************************************************)
(* Crawl runs: the pipeline's open/close hooks and PublicationsSpider.     *)
(***************************************************************************)
Modes == {"pending", "all"}
Spiders == {"lists", "publications"}

\* An UPDATE that lost its WHERE clause: every row of the table is set.
NoWhere_update_single_field(rows, id_field, id_value, field_name, field_value) ==
    [i \in DOMAIN rows |-> [rows[i] EXCEPT ![field_name] = field_value]]

\* SQLManager.update_single_field on the rows of one table:
\* UPDATE table SET field_name = ? WHERE id_field = ?
update_single_field(rows, id_field, id_value, field_name, field_value) ==
    [i \in DOMAIN rows |->
        IF rows[i][id_field] = id_value
        THEN [rows[i] EXCEPT ![field_name] = field_value]
        ELSE rows[i]]

\* The named queries of queries/*.sql the spider runs.
GET_LISTS_FOR_PROCESSING(rows, status) ==
    {i \in DOMAIN rows : rows[i].scrape_status = status}

GET_ALL_LISTS(rows) == DOMAIN rows

\* PublicationsSpider._get_lists_to_process: the selected rows of lists
\* (as row numbers, which are the rows' id column).
AlwaysAll_get_lists_to_process(mode, rows) == GET_ALL_LISTS(rows)

_get_lists_to_process(mode, rows) ==
    IF mode = "pending"
    THEN GET_LISTS_FOR_PROCESSING(rows, "pending")
    ELSE GET_ALL_LISTS(rows)

\* WhakoomWebscrapperPipeline.__init__ and open_spider for a new crawl
\* process (and the spider's __init__): migrations, then the audit entry.
open_spider ==
    \E name \in Spiders, mode \in Modes :
        /\ run.phase = "idle"
        /\ run.n < MaxRuns
        /\ Len(log) < MaxCrawlLog
        /\ apply_migrations
        /\ processed' = [list |-> {}, title |-> {}, volume |-> {}]
        /\ sp_processed' = {}
        /\ childWork' = [parsed |-> {}, failed |-> {}]
        /\ IF mlast'.raised
           THEN UNCHANGED <<log, run>>
           ELSE /\ log' = Append(log, LogEntry(name, "spider_started", 0, "success", ""))
                /\ run' = [phase |-> "opened", spider |-> name, mode |-> mode,
                                n |-> run.n + 1]
        /\ UNCHANGED <<uniqueKeys, lists, titles, volumes, lists_titles, faultsLeft,
                       plast, requests, outbox, workset, rvars>>

\* PublicationsSpider.start_requests (ListSpider: the default start_urls).
start_requests ==
    /\ run.phase = "opened"
    /\ run' = [run EXCEPT !.phase = "crawling"]
    /\ IF run.spider = "publications"
       THEN LET sel == _get_lists_to_process(run.mode, lists)
            IN  /\ workset' = [mode |-> run.mode, rows |-> sel, lists |-> lists]
                /\ requests' = {[type |-> "list", list_id |-> lists[i].list_id,
                                 db_id |-> lists[i].id, position |-> 0] : i \in sel}
       ELSE UNCHANGED <<workset, requests>>
    /\ UNCHANGED <<mvars, rvars, pvars, outbox, sp_processed, childWork>>

\* A ListsItem found during a run of the lists spider goes through the
\* pipeline.
ListFound ==
    \E id \in Ids :
        /\ run.phase = "crawling"
        /\ run.spider = "lists"
        /\ process_item("lists", [kind |-> "list", id |-> id, ref |-> 0], MaxCrawlLog)
        /\ UNCHANGED <<mvars, rvars, cvars>>

\* The next item yielded by PublicationsSpider goes through the pipeline.
ItemScraped ==
    /\ run.phase = "crawling"
    /\ outbox # <<>>
    /\ process_item(run.spider, Head(outbox), MaxCrawlLog)
    /\ outbox' = Tail(outbox)
    /\ childWork' =
          IF plast'.outcome = "returned" THEN childWork
          ELSE [childWork EXCEPT !.failed = @ \cup
                   {IF Head(outbox).kind = "rel" THEN Head(outbox).id
                                                 ELSE outbox[2].id}]
    /\ UNCHANGED <<mvars, rvars, run, requests, sp_processed, workset>>

\* PublicationsSpider.parse_list: claim the list, schedule one request per
\* title found on the page (n of them).  The items a callback yields pass
\* through the pipeline before the next response is delivered.
parse_list ==
    \E req \in requests, n \in 0..MaxTitlesOnPage :
        /\ req.type = "list"
        /\ outbox = <<>>
        /\ lists' = update_single_field(lists, "id", req.db_id,
                                        "scrape_status", "in_progress")
        /\ requests' = (requests \ {req}) \cup
              {[type |-> "volume", list_id |-> req.list_id, db_id |-> req.db_id,
                position |-> k] : k \in 1..n}
        /\ UNCHANGED <<mvars, rvars, uniqueKeys, titles, volumes, lists_titles, log,
                       processed, faultsLeft, plast, run, outbox, sp_processed,
                       workset>>
        /\ childWork' = [childWork EXCEPT !.parsed = @ \cup {req.db_id}]

\* PublicationsSpider.errback_list.
errback_list ==
    \E req \in requests :
        /\ req.type = "list"
        /\ outbox = <<>>
        /\ Len(log) < MaxCrawlLog
        /\ lists' = update_single_field(lists, "list_id", req.list_id,
                                        "scrape_status", "failed")
        /\ log' = Append(log, LogEntry("publications", "list_processing",
                                       req.list_id, "failed", "failure"))
        /\ requests' = requests \ {req}
        /\ UNCHANGED <<mvars, rvars, uniqueKeys, titles, volumes, lists_titles,
                       processed, faultsLeft, plast, run, outbox, sp_processed,
                       workset, childWork>>

\* PublicationsSpider.parse_volume_page: t is the title id read from the
\* page, 0 when the URL holds none (_extract_title_id_from_url raises
\* ValueError before the try block, which ends the callback).
parse_volume_page ==
    \E req \in requests, t \in {0} \cup Ids :
        /\ req.type = "volume"
        /\ outbox = <<>>
        /\ requests' = requests \ {req}
        /\ IF t = 0
           THEN /\ childWork' = [childWork EXCEPT !.failed = @ \cup {req.db_id}]
                /\ UNCHANGED <<outbox, sp_processed>>
           ELSE /\ outbox' = outbox \o
                      << [kind |-> "title", id |-> t, ref |-> 0],
                         [kind |-> "rel", id |-> req.db_id, ref |-> t] >>
                /\ sp_processed' = sp_processed \cup {req.db_id}
                /\ UNCHANGED childWork
        /\ UNCHANGED <<mvars, rvars, pvars, run, workset>>

\* PublicationsSpider.errback_volume_page.
errback_volume_page ==
    \E req \in requests :
        /\ req.type = "volume"
        /\ outbox = <<>>
        /\ Len(log) < MaxCrawlLog
        /\ log' = Append(log, LogEntry("publications", "title_processing", 0,
                                       "failed", "failure"))
        /\ requests' = requests \ {req}
        /\ UNCHANGED <<mvars, rvars, uniqueKeys, lists, titles, volumes, lists_titles,
                       processed, faultsLeft, plast, run, outbox, sp_processed,
                       workset>>
        /\ childWork' = [childWork EXCEPT !.failed = @ \cup {req.db_id}]

\* lists with every row whose id_field is in ids set to "completed".
RECURSIVE MarkCompleted(_, _, _)
MarkCompleted(rows, id_field, ids) ==
    IF ids = {} THEN rows
    ELSE LET x == CHOOSE y \in ids : TRUE
         IN  MarkCompleted(update_single_field(rows, id_field, x,
                               "scrape_status", "completed"),
                           id_field, ids \ {x})

\* PublicationsSpider.close_spider.
spider_close_spider ==
    /\ run.phase = "crawling"
    /\ run.spider = "publications"
    /\ requests = {}
    /\ outbox = <<>>
    /\ Len(log) < MaxCrawlLog
    /\ lists' = MarkCompleted(lists, "id", sp_processed)
    /\ log' = Append(log, LogEntry("publications", "spider_finished", 0, "success", ""))
    /\ run' = [run EXCEPT !.phase = "closing"]
    /\ UNCHANGED <<mvars, rvars, uniqueKeys, titles, volumes, lists_titles, processed,
                   faultsLeft, plast, requests, outbox, sp_processed, workset,
                   childWork>>

\* The crawl process exits: the pipeline's and the spider's in-memory sets
\* are gone.
ProcessEnds ==
    /\ processed' = [list |-> {}, title |-> {}, volume |-> {}]
    /\ sp_processed' = {}
    /\ childWork' = [parsed |-> {}, failed |-> {}]

\* WhakoomWebscrapperPipeline.close_spider, the last hook of the process.
close_spider ==
    /\ run.phase \in {"crawling", "closing"}
    /\ requests = {}
    /\ outbox = <<>>
    /\ Len(log) < MaxCrawlLog
    /\ log' = Append(log, LogEntry(run.spider, "spider_finished", 0, "success", ""))
    /\ lists' = MarkCompleted(lists, "list_id", processed.list)
    /\ run' = [run EXCEPT !.phase = "idle"]
    /\ ProcessEnds
    /\ UNCHANGED <<mvars, rvars, uniqueKeys, titles, volumes, lists_titles,
                   faultsLeft, plast, requests, outbox, workset>>

\* The crawl process is interrupted: its in-memory state is lost, no
\* close hook runs, the store stays as it is.
Interrupted ==
    /\ run.phase # "idle"
    /\ run' = [run EXCEPT !.phase = "idle"]
    /\ requests' = {}
    /\ outbox' = <<>>
    /\ ProcessEnds
    /\ UNCHANGED <<mvars, rvars, uniqueKeys, lists, titles, volumes, lists_titles, log,
                   faultsLeft, plast, workset>>

(***************************************************************************)
(* The repository: SQLManager's generic operations over record classes.    *)
(***************************************************************************)
\* The dataclasses of models.py (ListModel, TitleModel, ListTitleModel) and
\* of the package models/ (ListsItem, TitlesItem, TitlesListItem).
RecordClasses ==
    {"ListModel", "TitleModel", "ListTitleModel",
     "ListsItem", "TitlesItem", "TitlesListItem"}

\* The class attribute table_name.
table_name(cls) ==
    CASE cls \in {"ListModel", "ListsItem"} -> "lists"
      [] cls \in {"TitleModel", "TitlesItem"} -> "titles"
      [] cls \in {"ListTitleModel", "TitlesListItem"} -> "lists_titles"
      [] cls = "TableOnlyRecord" -> "lists"
      [] OTHER -> ""

\* dataclasses.fields(cls) without table_name: the declared field order.
Fields(cls) ==
    CASE cls \in {"ListModel", "ListsItem", "items_ListsItem", "TableOnlyRecord"} ->
            <<"list_id", "title", "url", "user_profile", "scrape_status", "scraped_at">>
      [] cls = "TitleModel" ->
            <<"title_id", "title", "url", "scrape_status", "scraped_at">>
      [] cls = "TitlesItem" ->
            <<"title_id", "title", "title_url", "scrape_status", "scraped_at">>
      [] cls \in {"ListTitleModel", "TitlesListItem"} ->
            <<"list_id", "title_id", "position">>

\* The classes a caller can hand to insert besides the record classes: the
\* scraped item ListsItem of items.py, which declares neither table_name nor
\* to_tuple, and a dataclass that declares table_name but no to_tuple.
CallerClasses == RecordClasses \cup {"items_ListsItem", "TableOnlyRecord"}

\* getattr(instance, "to_tuple", None) is not None.
has_to_tuple(cls) == cls \in RecordClasses

\* The attributes to_tuple() returns, in the order it returns them.
TupleOrder(cls) ==
    CASE cls \in {"ListModel", "ListsItem"} ->
            <<"list_id", "title", "url", "user_profile", "scrape_status", "scraped_at">>
      [] cls = "TitleModel" ->
            <<"title_id", "title", "url", "scrape_status", "scraped_at">>
      [] cls = "TitlesItem" ->
            <<"title_id", "title", "scrape_status", "scraped_at", "title_url">>
      [] cls \in {"ListTitleModel", "TitlesListItem"} ->
            <<"list_id", "title_id", "position">>

to_tuple(cls, rec) == [k \in DOMAIN TupleOrder(cls) |-> rec[TupleOrder(cls)[k]]]

Range(s) == {s[k] : k \in DOMAIN s}
Tables == {table_name(cls) : cls \in RecordClasses}

\* A column an INSERT does not name holds NULL.
NULL == <<"NULL", 0>>

\* The columns of a table: every column an INSERT of one of its record
\* classes names (the schema that accepts all of them).
Columns(table) ==
    UNION {Range(Fields(cls)) : cls \in {c \in RecordClasses : table_name(c) = table}}

\* The instance of a class built for entity n: the identifier n, the default
\* status, and a value of its own in every other field.
Instance(cls, n) ==
    [f \in Range(Fields(cls)) |->
        IF f = Fields(cls)[1] THEN <<"id", n>>
        ELSE IF f = "scrape_status" THEN <<"pending", 0>>
        ELSE <<f, n>>]

\* An insert that runs its INSERT (of a row of NULLs when it has no values)
\* before it looks at its arguments.
InsertFirst_SQLManager_insert(d, model_class, cls, rec) ==
    LET table == IF table_name(model_class) = "" THEN "lists"
                 ELSE table_name(model_class)
    IN  [db |-> [d EXCEPT ![table] = Append(@, [c \in Columns(table) |-> NULL])],
         raised |-> IF cls = model_class /\ table_name(model_class) # ""
                       /\ has_to_tuple(cls)
                    THEN "none" ELSE "ValueError"]

\* SQLManager.insert: the three argument checks, then
\* INSERT INTO table (declared fields) VALUES (to_tuple()), the k-th value
\* bound to the k-th column.
SQLManager_insert(d, model_class, cls, rec) ==
    IF cls # model_class
    THEN [db |-> d, raised |-> "ValueError"]
    ELSE IF table_name(model_class) = ""
    THEN [db |-> d, raised |-> "ValueError"]
    ELSE IF ~has_to_tuple(cls)
    THEN [db |-> d, raised |-> "ValueError"]
    ELSE LET table == table_name(model_class)
             model_fields == Fields(model_class)
             params == to_tuple(cls, rec)
             row == [c \in Columns(table) |->
                        IF \E k \in DOMAIN model_fields : model_fields[k] = c
                        THEN params[CHOOSE k \in DOMAIN model_fields : model_fields[k] = c]
                        ELSE NULL]
         IN  [db |-> [d EXCEPT ![table] = Append(@, row)], raised |-> "none"]

\* A lookup that fetches every matching row.
FetchAll_select_by_id(d, table, id_field, id_value) ==
    SelectSeq(d[table], LAMBDA row : row[id_field] = id_value)

\* SQLManager.select_by_id: SELECT * FROM table WHERE id_field = ?, fetchone.
select_by_id(d, table, id_field, id_value) ==
    LET hits == {i \in DOMAIN d[table] : d[table][i][id_field] = id_value}
    IN  IF hits = {} THEN <<>>
        ELSE <<d[table][CHOOSE i \in hits : \A j \in hits : i <= j]>>

TotalRows(d) == Len(d["lists"]) + Len(d["titles"]) + Len(d["lists_titles"])

NoCall ==
    [op |-> "none", model_class |-> "none", cls |-> "none", rec |-> <<>>,
     table |-> "none",
     id_field |-> "none", id_value |-> NULL, field_name |-> "none",
     field_value |-> NULL, before |-> [t \in Tables |-> <<>>], raised |-> "none",
     result |-> <<>>]

\* A caller inserts an instance of cls as model_class.
Insert ==
    \E model_class \in CallerClasses, cls \in CallerClasses, n \in Ids :
        LET r == SQLManager_insert(db, model_class, cls, Instance(cls, n))
        IN  /\ rlast.op \in {"none", "insert"}
            /\ TotalRows(db) < MaxRows
            /\ db' = r.db
            /\ rlast' = [NoCall EXCEPT !.op = "insert", !.cls = cls,
                                       !.model_class = model_class,
                                       !.rec = Instance(cls, n),
                                       !.table = table_name(model_class),
                                       !.before = db, !.raised = r.raised]
            /\ UNCHANGED <<mvars, pvars, cvars, mgr>>

\* The values a caller passes to update_single_field.
UpdateValues == {<<"completed", 0>>}

\* A caller updates one column of the rows one column selects.
UpdateSingleField ==
    \E table \in Tables :
        \E id_field \in Columns(table), field_name \in Columns(table),
           id_value \in {<<"id", n>> : n \in Ids} \cup {<<"pending", 0>>},
           field_value \in UpdateValues :
            /\ rlast.op \in {"none", "insert"}
            /\ db' = [db EXCEPT ![table] = update_single_field(@, id_field, id_value,
                                                              field_name, field_value)]
            /\ rlast' = [NoCall EXCEPT !.op = "update", !.table = table,
                                       !.id_field = id_field, !.id_value = id_value,
                                       !.field_name = field_name,
                                       !.field_value = field_value, !.before = db]
            /\ UNCHANGED <<mvars, pvars, cvars, mgr>>

\* What a directory argument can be: None, a path that does not exist, a
\* path that exists.
DirStates == {"none", "missing", "present"}

\* str.upper on the characters of the query names used here.
UpperChar(c) ==
    CASE c = "g" -> "G"
      [] c = "l" -> "L"
      [] c = "o" -> "O"
      [] OTHER -> c

upper(name) == [i \in DOMAIN name |-> UpperChar(name[i])]

\* The lines of a query file, each ended by a newline: a header "# name",
\* a line of SQL, or a blank line.
Header(name) == [kind |-> "header", name |-> name, text |-> ""]
Sql(text) == [kind |-> "sql", name |-> <<>>, text |-> text]
Blank == [kind |-> "blank", name |-> <<>>, text |-> ""]

\* The entries a query directory can hold; is_sql: the file name ends
\* with ".sql".
QueryFiles ==
    { [is_sql |-> TRUE,  lines |-> <<Header(<<"g", "l">>), Sql("SELECT 1")>>],
      [is_sql |-> TRUE,  lines |-> <<Header(<<"G", "L">>), Sql("SELECT 2")>>],
      [is_sql |-> TRUE,  lines |-> <<Header(<<"g", "l">>), Sql("SELECT 1"), Blank,
                                     Header(<<"o">>), Sql("SELECT 3")>>],
      [is_sql |-> TRUE,  lines |-> <<Header(<<"g", "l">>), Sql("SELECT 1"),
                                     Header(<<"G", "l">>), Sql("SELECT 2")>>],
      [is_sql |-> TRUE,  lines |-> <<Header(<<"o">>), Blank>>],
      [is_sql |-> FALSE, lines |-> <<Header(<<"g", "l">>), Sql("SELECT 4")>>] }

\* The names a caller asks for.
AskedNames ==
    { <<"g", "l">>, <<"G", "L">>, <<"g", "L">>, <<"G", "l">>, <<"o">>, <<"O">>, <<"x">> }

\* The directory listings: up to MaxQueryFiles entries in os.listdir order.
Listings == UNION { [1..n -> QueryFiles] : n \in 0..MaxQueryFiles }

\* First index from i on whose line is not blank (Len + 1 when none): the
\* greedy \s*\n after the name runs over the blank lines.
RECURSIVE SkipBlank(_, _)
SkipBlank(lines, i) ==
    IF i > Len(lines) THEN i
    ELSE IF lines[i].kind = "blank" THEN SkipBlank(lines, i + 1)
    ELSE i

\* First index from i on whose line is a header (Len + 1 when none): the
\* lookahead \n# ends the lazy body.
RECURSIVE NextHeader(_, _)
NextHeader(lines, i) ==
    IF i > Len(lines) THEN i
    ELSE IF lines[i].kind = "header" THEN i
    ELSE NextHeader(lines, i + 1)

\* str.strip on a body whose first line is not blank: the trailing blank
\* lines go.
RECURSIVE strip(_)
strip(body) ==
    IF body = <<>> THEN body
    ELSE IF body[Len(body)].kind = "blank" THEN strip(SubSeq(body, 1, Len(body) - 1))
    ELSE body

\* A dict that keeps the value it already has for a key.
KeepFirst_dict_set(q, k, v) ==
    [n \in DOMAIN q \cup {k} |-> IF n \in DOMAIN q THEN q[n] ELSE v]

\* queries[k] = v
dict_set(q, k, v) ==
    [n \in DOMAIN q \cup {k} |-> IF n = k THEN v ELSE q[n]]

\* dict.update
RECURSIVE dict_update(_, _, _)
dict_update(q, other, keys) ==
    IF keys = {} THEN q
    ELSE LET k == CHOOSE x \in keys : TRUE
         IN  dict_update(dict_set(q, k, other[k]), other, keys \ {k})

\* SQLManager._parse_named_queries: re.findall of
\* #\s*(\w+)\s*\n(.*?)(?=\n#|$) from line i on; each match stores the
\* stripped body under the upper-cased name.  The body begins at the first
\* line after the header that is not blank, whatever that line is, and runs
\* to the line before the next header.
RECURSIVE _parse_named_queries(_, _, _)
_parse_named_queries(lines, i, queries) ==
    IF i > Len(lines) THEN queries
    ELSE IF lines[i].kind # "header" THEN _parse_named_queries(lines, i + 1, queries)
    ELSE LET j == SkipBlank(lines, i + 1)
             k == IF j > Len(lines) THEN j ELSE NextHeader(lines, j + 1)
             query == IF j > Len(lines) THEN <<>> ELSE strip(SubSeq(lines, j, k - 1))
         IN  _parse_named_queries(lines, k,
                                  dict_set(queries, upper(lines[i].name), query))

\* SQLManager._load_queries_from_files: the named queries of the *.sql
\* files of sql_dir in listing order when the directory exists, none
\* otherwise.
RECURSIVE LoadLoop(_, _, _)
LoadLoop(listing, i, queries) ==
    IF i > Len(listing) THEN queries
    ELSE IF ~listing[i].is_sql THEN LoadLoop(listing, i + 1, queries)
    ELSE LET named_queries == _parse_named_queries(listing[i].lines, 1, <<>>)
         IN  LoadLoop(listing, i + 1,
                      dict_update(queries, named_queries, DOMAIN named_queries))

_load_queries_from_files(sql_dir, listing) ==
    IF sql_dir = "present" THEN LoadLoop(listing, 1, <<>>) ELSE <<>>

NoManager ==
    [constructed |-> FALSE, sql_dir |-> "none", migrations_dir |-> "none",
     listing |-> <<>>, queries |-> <<>>, executed |-> {},
     last |-> [op |-> "none", name |-> <<>>, raised |-> FALSE, result |-> <<>>]]

\* SQLManager.__init__.
Construct ==
    \E sql_dir \in DirStates, migrations_dir \in DirStates, listing \in Listings :
        /\ ~mgr.constructed
        /\ sql_dir # "present" => listing = <<>>
        /\ mgr' = [NoManager EXCEPT
                      !.constructed = TRUE,
                      !.sql_dir = sql_dir,
                      !.migrations_dir = migrations_dir,
                      !.listing = listing,
                      !.queries = IF sql_dir = "none" THEN <<>>
                                  ELSE _load_queries_from_files(sql_dir, listing),
                      !.last = [op |-> "__init__", name |-> <<>>, raised |-> FALSE,
                                result |-> <<>>]]
        /\ UNCHANGED <<mvars, pvars, cvars, db, rlast>>

\* A lookup by the name as given.
CaseSensitive_queries_get(queries, query_name) ==
    IF query_name \in DOMAIN queries THEN queries[query_name] ELSE <<>>

\* self.queries.get(query_name.upper()); None and "" are both falsy and are
\* both the empty text here.
queries_get(queries, query_name) ==
    IF upper(query_name) \in DOMAIN queries THEN queries[upper(query_name)] ELSE <<>>

\* SQLManager.execute_query: ValueError when the lookup yields nothing,
\* else the query text is executed.
execute_query ==
    \E query_name \in AskedNames :
        LET query == queries_get(mgr.queries, query_name)
        IN  /\ mgr.constructed
            /\ mgr' = IF query = <<>>
                      THEN [mgr EXCEPT !.last = [op |-> "execute_query",
                                                 name |-> query_name,
                                                 raised |-> TRUE, result |-> <<>>]]
                      ELSE [mgr EXCEPT !.executed = @ \cup {query},
                                       !.last = [op |-> "execute_query",
                                                 name |-> query_name,
                                                 raised |-> FALSE, result |-> query]]
            /\ UNCHANGED <<mvars, pvars, cvars, db, rlast>>

\* SQLManager.get_pending_migrations of the configured manager: the empty
\* list when migrations_dir is None or does not exist, else the listing.
PendingOfManager ==
    /\ mgr.constructed
    /\ LET r == IF mgr.migrations_dir # "present"
                THEN [raised |-> FALSE, pending |-> <<>>]
                ELSE get_pending_migrations(dir, tableExists, ledger)
       IN  mgr' = [mgr EXCEPT !.last = [op |-> "get_pending_migrations", name |-> <<>>,
                                        raised |-> r.raised, result |-> r.pending]]
    /\ UNCHANGED <<mvars, pvars, cvars, db, rlast>>

\* An UPDATE that sets the key column as well.
KeyToo_SQLManager_update(d, model_class, cls, rec, id_field, id_value) ==
    IF cls # model_class \/ table_name(model_class) = ""
    THEN [db |-> d, raised |-> "ValueError"]
    ELSE LET table == table_name(model_class)
         IN  [db |-> [d EXCEPT ![table] =
                        [i \in DOMAIN @ |->
                            IF @[i][id_field] = id_value
                            THEN [c \in Columns(table) |->
                                     IF c \in Range(Fields(model_class)) THEN rec[c]
                                     ELSE @[i][c]]
                            ELSE @[i]]],
              raised |-> "none"]

\* SQLManager.update: the two argument checks, then
\* UPDATE table SET f = ? (every declared field but id_field, the value
\* read from the instance by name) WHERE id_field = ?.
SQLManager_update(d, model_class, cls, rec, id_field, id_value) ==
    IF cls # model_class
    THEN [db |-> d, raised |-> "ValueError"]
    ELSE IF table_name(model_class) = ""
    THEN [db |-> d, raised |-> "ValueError"]
    ELSE LET table == table_name(model_class)
             model_fields == Range(Fields(model_class)) \ {id_field}
         IN  [db |-> [d EXCEPT ![table] =
                        [i \in DOMAIN @ |->
                            IF @[i][id_field] = id_value
                            THEN [c \in Columns(table) |->
                                     IF c \in model_fields THEN rec[c] ELSE @[i][c]]
                            ELSE @[i]]],
              raised |-> "none"]

\* A caller updates the rows one field selects from an instance: the field
\* is the identifier or the field declared after it, the value one that an
\* instance carries there.  A call with an instance of another class is
\* refused before any of this is read, so one such call per pair of classes
\* is enumerated.
Update ==
    \E model_class \in CallerClasses, cls \in CallerClasses, n \in Ids, k \in Ids :
        \E id_field \in {Fields(cls)[1], Fields(cls)[2]} :
            LET id_value == Instance(cls, k)[id_field]
                r == SQLManager_update(db, model_class, cls, Instance(cls, n),
                                       id_field, id_value)
            IN  /\ rlast.op \in {"none", "insert"}
                /\ cls # model_class => n = 1 /\ k = 1 /\ id_field = Fields(cls)[1]
                /\ db' = r.db
                /\ rlast' = [NoCall EXCEPT !.op = "update_record", !.cls = cls,
                                           !.model_class = model_class,
                                           !.rec = Instance(cls, n),
                                           !.table = table_name(model_class),
                                           !.id_field = id_field,
                                           !.id_value = id_value,
                                           !.before = db, !.raised = r.raised]
                /\ UNCHANGED <<mvars, pvars, cvars, mgr>>

RInit ==
    /\ db = [t \in Tables |-> <<>>]
    /\ rlast = NoCall
    /\ mgr = NoManager

RNext == Insert \/ UpdateSingleField

CInit ==
    /\ run = [phase |-> "idle", spider |-> "none", mode |-> "pending", n |-> 0]
    /\ requests = {}
    /\ outbox = <<>>
    /\ sp_processed = {}
    /\ workset = [mode |-> "none", rows |-> {}, lists |-> <<>>]
    /\ childWork = [parsed |-> {}, failed |-> {}]

Init == MInit /\ PInit /\ CInit /\ RInit

\* The repository operations on their own, over a schema with unique keys
\* for the crawl store (which these operations do not touch).
RepoInit == Init /\ uniqueKeys

SpecRepo == RepoInit /\ [][RNext]_vars

\* The values a caller looks rows up by: an identifier, or a status.
LookupValues == {<<"id", n>> : n \in Ids} \cup {<<"pending", 0>>}

\* A caller looks a row up by the value of one column.
SelectById ==
    \E table \in Tables :
        \E id_field \in Columns(table), id_value \in LookupValues :
            /\ rlast.op \in {"none", "insert"}
            /\ rlast' = [NoCall EXCEPT !.op = "select", !.table = table,
                                       !.id_field = id_field,
                                       !.id_value = id_value, !.before = db,
                                       !.result = select_by_id(db, table, id_field,
                                                               id_value)]
            /\ UNCHANGED <<db, mvars, pvars, cvars, mgr>>

UpdateNext == Insert \/ Update

LookupNext == Insert \/ SelectById

\* Records are inserted and looked up.
SpecLookup == RepoInit /\ [][LookupNext]_vars

\* Records are inserted and updated from instances.
SpecUpdate == RepoInit /\ [][UpdateNext]_vars

RaceNext ==
    \/ proc_deploy_file /\ UNCHANGED <<pvars, cvars, rvars>>
    \/ proc_create_migrations_table /\ UNCHANGED <<pvars, cvars, rvars>>
    \/ proc_get_pending_migrations /\ UNCHANGED <<pvars, cvars, rvars>>
    \/ proc_next_migration /\ UNCHANGED <<pvars, cvars, rvars>>
    \/ proc_statement /\ UNCHANGED <<pvars, cvars, rvars>>
    \/ proc_insert_ledger_row /\ UNCHANGED <<pvars, cvars, rvars>>

\* Two processes apply the migrations of one directory to one store.
SpecRace == RepoInit /\ [][RaceNext]_vars

ConfigNext == Construct \/ execute_query \/ PendingOfManager

\* A manager is configured and used.
SpecConfig == RepoInit /\ [][ConfigNext]_vars

\* A migration file is deployed while no crawl process runs.
DeployFile ==
    /\ run.phase = "idle"
    /\ AddFile
    /\ UNCHANGED <<pvars, cvars, rvars>>

OpenNext == DeployFile \/ open_spider \/ start_requests \/ ListFound

\* A crawl process is opened over a migrations directory with files in it.
SpecOpen == Init /\ [][OpenNext]_vars

\* The migration runner on its own.
SpecMig == Init /\ [][MNext]_vars

\* The pipeline is handed an item.
ItemArrives ==
    \E item \in Items :
        /\ process_item("publications", item, MaxLog)
        /\ UNCHANGED <<mvars, rvars, cvars>>

\* The item pipeline on its own.
SpecPipe == Init /\ [][ItemArrives]_vars

CNext ==
    \/ open_spider
    \/ start_requests
    \/ ListFound
    \/ ItemScraped
    \/ parse_list
    \/ errback_list
    \/ parse_volume_page
    \/ errback_volume_page
    \/ spider_close_spider
    \/ close_spider
    \/ Interrupted

\* Sequences of crawl runs.
SpecCrawl == Init /\ [][CNext]_vars

\* The values of lists.scrape_status the code writes: the item default, and
\* the updates of parse_list, close_spider and errback_list.
Statuses == {"pending", "in_progress", "completed", "failed"}

\* The contents the lists table can have: ids 1..n in insertion order, one
\* row per list_id when the schema makes list_id unique.
ListTables(unique) ==
    UNION { {t \in [1..n -> [id : 1..n, list_id : Ids, scrape_status : Statuses]] :
                /\ \A i \in 1..n : t[i].id = i
                /\ unique => \A i, j \in 1..n : t[i].list_id = t[j].list_id => i = j}
            : n \in 0..MaxId }

\* A publications run opened in either mode over any such table.
SelectInit ==
    /\ MInit
    /\ uniqueKeys \in BOOLEAN
    /\ lists \in ListTables(uniqueKeys)
    /\ titles = <<>>
    /\ volumes = <<>>
    /\ lists_titles = <<>>
    /\ log = <<>>
    /\ processed = [list |-> {}, title |-> {}, volume |-> {}]
    /\ faultsLeft = MaxFaults
    /\ plast = [item |-> NoItem, outcome |-> "none", attempts |-> 0,
                delays |-> <<>>, errs |-> <<>>, logBefore |-> 0,
                keyRowsBefore |-> 0]
    /\ \E mode \in Modes :
          run = [phase |-> "opened", spider |-> "publications", mode |-> mode,
                 n |-> 1]
    /\ requests = {}
    /\ outbox = <<>>
    /\ sp_processed = {}
    /\ workset = [mode |-> "none", rows |-> {}, lists |-> <<>>]
    /\ childWork = [parsed |-> {}, failed |-> {}]
    /\ RInit

\* The selection of the work set on its own.
SpecSelect == SelectInit /\ [][start_requests]_vars

(***************************************************************************)
(* Properties of the migration runner.                                     *)
(***************************************************************************)
Rows(led) == {led[i] : i \in 1..Len(led)}
Row(m) == [version |-> m.version, name |-> m.name]
IsPrefix(a, b) == Len(a) <= Len(b) /\ SubSeq(b, 1, Len(a)) = a
DistinctVersions(led) ==
    \A i, j \in 1..Len(led) : led[i].version = led[j].version => i = j

\* A .sql filename that is not <version>_<name>.sql with both parts non-empty.
Malformed(f) ==
    /\ EndsWith(f, DotSql)
    /\ LET stem == SubSeq(f, 1, Len(f) - 4)
       IN  \/ \A i \in 1..Len(stem) : stem[i] # "_"
           \/ stem[1] = "_"
           \/ \E i \in 1..Len(stem) :
                 /\ stem[i] = "_"
                 /\ \A h \in 1..(i - 1) : stem[h] # "_"
                 /\ i = Len(stem)

HasMalformed(d) == \E f \in DOMAIN d : Malformed(f)

\* C1: get_pending_migrations() returns no migration whose version is in the
\* ledger, and after apply_migrations() returns normally the ledger holds
\* exactly the versions that were there before plus the versions of the
\* files that were pending, each version once.
C1_LedgerIsUnionWithPending ==
    /\ (mlast.op \in {"pending", "apply"}) =>
          \A i \in 1..Len(mlast.pending) :
              mlast.pending[i].version \notin Versions(mlast.ledgerBefore)
    /\ (mlast.op = "apply" /\ ~mlast.raised) =>
          /\ Versions(ledger) =
                Versions(mlast.ledgerBefore) \cup
                {mlast.pending[i].version : i \in 1..Len(mlast.pending)}
          /\ DistinctVersions(ledger)

\* C2: a run of apply_migrations() that directly follows a run which returned
\* normally, over the same directory, executes no up script and leaves the
\* ledger rows and the schema as they were; create_migrations_table() on a
\* store that already has the ledger table changes nothing.
C2_SecondRunIsNoOp ==
    /\ (mlast.op = "apply" /\ mlast.afterCleanApply) =>
          /\ ~mlast.raised
          /\ mlast.executed = <<>>
          /\ ledger = mlast.ledgerBefore
          /\ schema = mlast.schemaBefore
    /\ (mlast.op = "create" /\ mlast.tableBefore) =>
          /\ tableExists
          /\ ledger = mlast.ledgerBefore
          /\ schema = mlast.schemaBefore

\* The second of two consecutive runs happened, after a first run that
\* applied something, with a file without Up marker still pending.
C2_Witness ==
    /\ mlast.op = "apply"
    /\ mlast.afterCleanApply
    /\ Len(ledger) >= 2
    /\ mlast.pending # <<>>

\* C3: across runs, also with files added in between, the order in which
\* versions are recorded in the ledger is strictly ascending by version, and
\* no up script is executed for a version already in the ledger.
C3_AppliedInAscendingOrderOnce ==
    /\ \A i, j \in 1..Len(ledger) :
          i < j => StrLess(ledger[i].version, ledger[j].version)
    /\ \A i \in 1..Len(mlast.executed) : ~mlast.executed[i].applied

\* C4: when an up script fails during apply_migrations(), the error reaches
\* the caller, no ledger row is written for that migration, no later pending
\* migration is executed or recorded, and the migrations applied earlier in
\* the run keep their ledger rows.
C4_FailedScriptStopsRun ==
    (mlast.op = "apply" /\ mlast.failKind = "script") =>
        LET k == mlast.failedAt
            p == mlast.pending
        IN  /\ mlast.raised
            /\ Row(p[k]) \notin Rows(ledger)
            /\ \A j \in (k + 1)..Len(p) :
                  /\ Row(p[j]) \notin Rows(ledger)
                  /\ \A e \in 1..Len(mlast.executed) :
                        mlast.executed[e].file # p[j].file_path
            /\ \A j \in 1..(k - 1) :
                  UpMatch(dir[p[j].file_path]).match => Row(p[j]) \in Rows(ledger)
            /\ IsPrefix(mlast.ledgerBefore, ledger)

\* A run in which the second of three pending migrations failed after the
\* first one was recorded.
C4_Witness ==
    /\ mlast.op = "apply"
    /\ mlast.failKind = "script"
    /\ mlast.failedAt = 2
    /\ Len(mlast.pending) = 3
    /\ Len(ledger) = Len(mlast.ledgerBefore) + 1
    /\ UpMatch(dir[mlast.pending[3].file_path]).match

\* C5: each migration is atomic: schema changes of a migration's script are
\* committed if and only if its ledger row was written.
C5_MigrationAtomic ==
    \A f \in DOMAIN dir :
        LET meta == _parse_migration_filename(f)
            up == UpMatch(dir[f])
            stmts == ScriptStatements(dir[f], up.first, up.last)
        IN  (meta.ok /\ up.match) =>
               /\ (\E n \in 1..Len(dir[f]) : <<f, n>> \in schema) =>
                     Row(meta) \in Rows(ledger)
               /\ Row(meta) \in Rows(ledger) =>
                     \A i \in 1..Len(stmts) : <<f, stmts[i]>> \in schema

\* C6: with a malformed .sql name in the directory, get_pending_migrations()
\* and apply_migrations() raise and apply nothing: no up script is executed
\* and no ledger row is added.
C6_MalformedNameFailsFast ==
    (mlast.op \in {"pending", "apply"} /\ HasMalformed(dir)) =>
        /\ mlast.raised
        /\ mlast.pending = <<>>
        /\ mlast.executed = <<>>
        /\ ledger = mlast.ledgerBefore
        /\ schema = mlast.schemaBefore

\* apply_migrations() ran over a directory where a valid, not yet applied
\* migration with an Up section sorts before a malformed name.
C6_Witness ==
    /\ mlast.op = "apply"
    /\ mlast.raised
    /\ \E f, g \in DOMAIN dir :
          /\ Malformed(g)
          /\ StrLess(f, g)
          /\ _parse_migration_filename(f).ok
          /\ UpMatch(dir[f]).match
          /\ _parse_migration_filename(f).version \notin Versions(ledger)

(***************************************************************************)
(* Properties of the item pipeline.                                        *)
(***************************************************************************)
\* The audit entries the last process_item call wrote.
Written == SubSeq(log, plast.logBefore + 1, Len(log))

ItemFailedEntries ==
    {i \in DOMAIN Written : Written[i].operation_type = "item_failed"}

Called == plast.outcome # "none"

\* C7: process_item makes at most 3 attempts; the delay slept after the k-th
\* failed attempt is 2^(k-1); a delay is taken only between attempts, never
\* after the last one: a call that succeeds at attempt n slept n-1 times
\* (never when n = 1, exactly 1 then 2 when n = 3), and a call whose
\* attempts all fail slept exactly twice.
C7_RetrySchedule ==
    Called =>
        /\ plast.attempts \in 1..3
        /\ \A k \in DOMAIN plast.delays : plast.delays[k] = 2 ^ (k - 1)
        /\ plast.outcome = "returned" =>
              /\ Len(plast.delays) = plast.attempts - 1
              /\ plast.attempts = 1 => plast.delays = <<>>
              /\ plast.attempts = 3 => plast.delays = <<1, 2>>
        /\ plast.outcome # "returned" =>
              /\ plast.attempts = 3
              /\ plast.delays = <<1, 2>>

\* A unit failed twice and succeeded on the third attempt.
C7_Witness ==
    /\ plast.outcome = "returned"
    /\ plast.attempts = 3
    /\ Len(plast.errs) = 2
    /\ plast.delays = <<1, 2>>

\* C8: when the unit fails on all 3 attempts, process_item raises DropItem
\* and the audit log gains exactly one item_failed entry (status failed,
\* error_message the last error), written last; when an attempt succeeds
\* no item_failed entry is written.
C8_ExhaustionLogsOneFailure ==
    /\ (Called /\ Len(plast.errs) = 3) =>
          /\ plast.outcome = "DropItem"
          /\ Cardinality(ItemFailedEntries) = 1
          /\ Written # <<>>
          /\ Written[Len(Written)] =
                LogEntry("publications", "item_failed", 0, "failed", plast.errs[3])
    /\ plast.outcome = "returned" => ItemFailedEntries = {}

\* C9: processing a List, Title or Volume item whose key is already in the
\* store (and which meets no transient store error) returns normally and
\* leaves exactly one row for the key.
C9_ResightingIsIdempotent ==
    ( /\ Called
      /\ plast.item.kind \in {"list", "title", "volume"}
      /\ plast.keyRowsBefore >= 1
      /\ \A k \in DOMAIN plast.errs : plast.errs[k] # "busy" ) =>
        /\ plast.outcome = "returned"
        /\ Cardinality(KeyRows(Store, plast.item)) = 1

(***************************************************************************)
(* Properties of the crawl.                                                *)
(***************************************************************************)
\* C10: the work set selected in mode pending is exactly the lists whose
\* status is pending (none that is completed, in_progress or failed); the
\* work set selected in mode all is every list.
C10_WorkSetByMode ==
    LET rows == workset.lists
    IN  /\ workset.mode = "pending" =>
              workset.rows = {i \in DOMAIN rows : rows[i].scrape_status = "pending"}
        /\ workset.mode = "all" => workset.rows = DOMAIN rows

\* A pending-mode selection over a table that holds a pending list, a
\* list another run claimed and none else: the claimed one is left out.
C10_Witness ==
    /\ workset.mode = "pending"
    /\ Cardinality(workset.rows) = 1
    /\ Len(workset.lists) = 2
    /\ \E i \in DOMAIN workset.lists :
          workset.lists[i].scrape_status \in {"in_progress", "completed"}
    /\ requests # {}

\* C11: a run started in mode pending re-enters every list that is still
\* pending and every list an earlier run marked failed, and no list an
\* earlier run completed.
C11_ResumeReentersUnfinished ==
    workset.mode = "pending" =>
        \A i \in DOMAIN workset.lists :
            /\ workset.lists[i].scrape_status \in {"pending", "failed"} =>
                  i \in workset.rows
            /\ workset.lists[i].scrape_status = "completed" =>
                  i \notin workset.rows

\* The status changes the state machine allows.
Forward == {<<"pending", "in_progress">>, <<"in_progress", "completed">>,
            <<"in_progress", "failed">>}

\* C12: the status of every List and Title is one of pending, in_progress,
\* completed, failed, and every step that changes a List's or Title's
\* status moves it forward: pending to in_progress, in_progress to
\* completed or failed (so never completed or failed back to in_progress,
\* never failed to completed).
C12_StatusMovesForward ==
    [][ /\ \A i \in DOMAIN lists :
              /\ i \in DOMAIN lists'
              /\ lists'[i].scrape_status \in Statuses
              /\ lists'[i].scrape_status # lists[i].scrape_status =>
                    <<lists[i].scrape_status, lists'[i].scrape_status>> \in Forward
        /\ \A i \in DOMAIN titles :
              /\ i \in DOMAIN titles'
              /\ titles'[i].scrape_status \in Statuses
              /\ titles'[i].scrape_status # titles[i].scrape_status =>
                    <<titles[i].scrape_status, titles'[i].scrape_status>> \in Forward
      ]_vars

\* C13: a step that sets a List to completed does so only when the List's
\* child work of this run is done: its page was parsed in this run, and no
\* title page request of it failed and no item of it was dropped.
C13_CompletedOnlyWhenChildrenDone ==
    [][ \A i \in DOMAIN lists :
            ( /\ lists[i].scrape_status # "completed"
              /\ lists'[i].scrape_status = "completed" ) =>
                /\ lists[i].id \in childWork.parsed
                /\ lists[i].id \notin childWork.failed
      ]_vars

(***************************************************************************)
(* Properties of the repository.                                           *)
(***************************************************************************)
\* The key of a record class: its first declared field.
KeyField(cls) == Fields(cls)[1]

\* The last call inserted a record whose key was not yet in its table.
InsertedNew ==
    /\ rlast.op = "insert"
    /\ rlast.raised = "none"
    /\ select_by_id(rlast.before, rlast.table, KeyField(rlast.cls),
                    rlast.rec[KeyField(rlast.cls)]) = <<>>

\* C14: after insert(record), select_by_id on the record's key returns a row
\* in which every field of the record holds the value the record had for it.
C14_InsertSelectRoundTrip ==
    InsertedNew =>
        LET res == select_by_id(db, rlast.table, KeyField(rlast.cls),
                                rlast.rec[KeyField(rlast.cls)])
        IN  /\ res # <<>>
            /\ \A f \in DOMAIN rlast.rec : res[1][f] = rlast.rec[f]

\* C15: update_single_field changes only the targeted column of the rows whose
\* id_field equals id_value; every other column of those rows, every other
\* row of the table and every other table are unchanged, and select_by_id then
\* returns the row it returned before with the new value in that column.
C15_UpdateChangesOnlyTarget ==
    rlast.op = "update" =>
        LET old == rlast.before[rlast.table]
            new == db[rlast.table]
            was == select_by_id(rlast.before, rlast.table, rlast.id_field,
                                rlast.id_value)
        IN  /\ \A t \in Tables \ {rlast.table} : db[t] = rlast.before[t]
            /\ DOMAIN new = DOMAIN old
            /\ \A i \in DOMAIN old :
                  /\ \A c \in Columns(rlast.table) \ {rlast.field_name} :
                        new[i][c] = old[i][c]
                  /\ old[i][rlast.id_field] = rlast.id_value =>
                        new[i][rlast.field_name] = rlast.field_value
                  /\ old[i][rlast.id_field] # rlast.id_value => new[i] = old[i]
            /\ (was # <<>> /\ rlast.field_name # rlast.id_field) =>
                  select_by_id(db, rlast.table, rlast.id_field, rlast.id_value)
                      = <<[was[1] EXCEPT ![rlast.field_name] = rlast.field_value]>>

\* A List inserted as pending is set to completed by its list_id while the
\* table holds another List.
C15_Witness ==
    /\ rlast.op = "update"
    /\ rlast.table = "lists"
    /\ rlast.id_field = "list_id"
    /\ rlast.field_name = "scrape_status"
    /\ rlast.field_value = <<"completed", 0>>
    /\ \E i, j \in DOMAIN db["lists"] :
          /\ rlast.before["lists"][i].list_id = rlast.id_value
          /\ rlast.before["lists"][i].scrape_status = <<"pending", 0>>
          /\ db["lists"][i].scrape_status = <<"completed", 0>>
          /\ rlast.before["lists"][j].list_id # rlast.id_value

(***************************************************************************)
(* Properties of the audit log and of the stored relationships.            *)
(***************************************************************************)
\* C16: the scraping_log only grows by appending; no step of the pipeline or
\* of a spider modifies or deletes an entry that is already there.
C16_AuditLogAppendOnly == [][IsPrefix(log, log')]_vars

\* The log holds the entries of a finished run: its start, the processing
\* of a list, its end, and the failure entry of a dropped item.
C16_Witness ==
    /\ run.phase = "idle"
    /\ \E i, j, k \in DOMAIN log :
          /\ i < j /\ j < k
          /\ log[i].operation_type = "spider_started"
          /\ log[j].operation_type = "list_processing"
          /\ log[k].operation_type = "spider_finished"
    /\ \E i \in DOMAIN log : log[i].operation_type = "item_failed"

\* C17: every lists_titles row references a row of lists (by its id) and a
\* row of titles (by its title_id).
C17_RelationshipsReferenceRows ==
    \A r \in DOMAIN lists_titles :
        /\ \E i \in DOMAIN lists : lists[i].id = lists_titles[r].list_id
        /\ \E j \in DOMAIN titles : titles[j].title_id = lists_titles[r].title_id

(***************************************************************************)
(* Properties of error handling.                                           *)
(***************************************************************************)
\* C18: a call that fails with a type error (an item of unknown type) is not
\* retried: it ends in an error after a single attempt and no backoff delay.
C18_TypeErrorsNotRetried ==
    (Called /\ \E k \in DOMAIN plast.errs : plast.errs[k] = "unknown_type") =>
        /\ plast.outcome # "returned"
        /\ plast.attempts = 1
        /\ plast.delays = <<>>

\* Constructing the manager on a query directory that does not exist raises.
MissingQueryDirRaises ==
    (mgr.last.op = "__init__" /\ mgr.sql_dir = "missing") => mgr.last.raised

\* Asking for the pending migrations of a directory that does not exist raises.
MissingMigrationsDirRaises ==
    (mgr.last.op = "get_pending_migrations" /\ mgr.migrations_dir = "missing") =>
        mgr.last.raised

\* Executing a name that is not registered raises and runs no SQL.
UnregisteredQueryRaises ==
    (mgr.last.op = "execute_query" /\ upper(mgr.last.name) \notin DOMAIN mgr.queries) =>
        /\ mgr.last.raised
        /\ mgr.last.result = <<>>

\* C19: a query directory or a migrations directory that does not exist makes
\* the manager raise (no silent empty query store, no silent empty pending
\* list), and an unregistered query name raises without executing any SQL.
C19_ConfigurationErrorsRaise ==
    /\ MissingQueryDirRaises
    /\ MissingMigrationsDirRaises
    /\ UnregisteredQueryRaises

\* C20: the error raised on retry exhaustion names the item that could not
\* be persisted and the number of attempts, and the failure entry written
\* with it carries the id of the dropped item as its entity_id.
C20_FailureIdentifiesItem ==
    (Called /\ plast.outcome = "DropItem") =>
        LET msg == DropItemMessage(plast.errs[Len(plast.errs)])
        IN  /\ msg.attempts = plast.attempts
            /\ Written # <<>>
            /\ Written[Len(Written)].operation_type = "item_failed"
            /\ Written[Len(Written)].entity_id = plast.item.id
            /\ "item" \in DOMAIN msg

\* The last insert was handed an instance of another class, a class without
\* table name, or an instance without to_tuple.
BadInsertArguments ==
    /\ rlast.op = "insert"
    /\ \/ rlast.cls # rlast.model_class
       \/ table_name(rlast.model_class) = ""
       \/ ~has_to_tuple(rlast.cls)

\* C21: insert fails with an error when the instance is not of model_class,
\* when model_class has no table name, or when the instance has no to_tuple;
\* in each case the store is as it was before the call.
C21_BadInsertRaisesAndStoresNothing ==
    BadInsertArguments =>
        /\ rlast.raised = "ValueError"
        /\ db = rlast.before

\* A store that holds a row refuses the ListsItem of items.py, which has no
\* table name.
C21_Witness ==
    /\ BadInsertArguments
    /\ rlast.model_class = "items_ListsItem"
    /\ rlast.cls = "items_ListsItem"
    /\ rlast.raised = "ValueError"
    /\ TotalRows(db) > 0

(***************************************************************************)
(* Properties of the named-query store.                                    *)
(***************************************************************************)
\* The headers of the *.sql files of the listing the manager loaded:
\* <<file index, line index>>.
LoadedHeaders ==
    IF mgr.sql_dir # "present" THEN {}
    ELSE UNION { {<<f, i>> : i \in {j \in DOMAIN mgr.listing[f].lines :
                                        mgr.listing[f].lines[j].kind = "header"}}
                 : f \in {g \in DOMAIN mgr.listing : mgr.listing[g].is_sql} }

HeaderName(h) == mgr.listing[h[1]].lines[h[2]].name

\* Two names that differ at most in the case of their letters.
SameIgnoringCase(a, b) ==
    /\ Len(a) = Len(b)
    /\ \A i \in DOMAIN a : UpperChar(a[i]) = UpperChar(b[i])

LoadedAfter(a, b) == a[1] > b[1] \/ (a[1] = b[1] /\ a[2] > b[2])

\* The text written under a header: the lines that follow it up to the next
\* header, without the blank lines.
TextUnder(h) ==
    LET lines == mgr.listing[h[1]].lines
        later == {j \in DOMAIN lines : j > h[2] /\ lines[j].kind = "header"}
        stop == IF later = {} THEN Len(lines) + 1
                ELSE CHOOSE j \in later : \A k \in later : j <= k
        IsText(line) == line.kind # "blank"
    IN  SelectSeq(SubSeq(lines, h[2] + 1, stop - 1), IsText)

NamedBy(f, row) ==
    /\ f = row.version \o <<"_">> \o row.name \o DotSql
    /\ \A i \in DOMAIN row.version : row.version[i] # "_"
    /\ row.version # <<>>
    /\ row.name # <<>>

\* A run on a fresh store over a directory that holds one file.
FreshSingleFileRun(f) ==
    /\ mlast.op = "apply"
    /\ ~mlast.raised
    /\ mlast.ledgerBefore = <<>>
    /\ mlast.schemaBefore = {}
    /\ DOMAIN dir = {f}

\* C24: every ledger row carries the version (the text before the first
\* underscore) and the name (the whole remainder without the extension) of a
\* migration file; a run on a fresh store over one validly named file with
\* an Up section writes that file's row and executes the first statement of
\* its Up section.
C24_LedgerRowFromFilename ==
    /\ \A i \in DOMAIN ledger : \E f \in DOMAIN dir : NamedBy(f, ledger[i])
    /\ \A f \in DOMAIN dir :
          (FreshSingleFileRun(f) /\ f \in ValidNames /\ UpMatch(dir[f]).match) =>
              /\ Len(ledger) = 1
              /\ NamedBy(f, ledger[1])
              /\ <<f, UpMatch(dir[f]).first>> \in schema

\* 2_a_b.sql was applied on a fresh store: the ledger holds ("2", "a_b").
C24_Witness ==
    /\ FreshSingleFileRun(<<"2", "_", "a", "_", "b">> \o DotSql)
    /\ ledger = <<[version |-> <<"2">>, name |-> <<"a", "_", "b">>]>>
    /\ schema # {}

\* C25: when apply_migrations() has returned without raising, a call of
\* get_pending_migrations() right after it returns the empty list.
C25_UpToDateAfterApply ==
    (mlast.op = "apply" /\ ~mlast.raised) =>
        LET res == get_pending_migrations(dir, tableExists, ledger)
        IN  /\ ~res.raised
            /\ res.pending = <<>>

\* Line of the first "-- Down" marker after line u, Len + 1 when none.
DownLine(body, u) ==
    LET downs == {j \in DOMAIN body : j > u /\ body[j] = "down"}
    IN  IF downs = {} THEN Len(body) + 1
        ELSE CHOOSE j \in downs : \A k \in downs : j <= k

\* C26: the script executed for a migration is the text between the Up
\* marker and the Down marker (the end of the file without one): when the
\* migration is recorded, every statement of its Up section was executed,
\* also one that follows a comment line, and none of its Down section.
C26_UpSectionExecutedWhole ==
    \A f \in DOMAIN dir :
        LET meta == _parse_migration_filename(f)
            body == dir[f]
            u == FirstUp(body, 1)
            d == DownLine(body, u)
        IN  (meta.ok /\ u # 0 /\ Row(meta) \in Rows(ledger)) =>
               /\ \A i \in DOMAIN body :
                     (u < i /\ i < d /\ body[i] \in {"ok", "bad"}) => <<f, i>> \in schema
               /\ \A i \in DOMAIN body : i > d => <<f, i>> \notin schema

(***************************************************************************)
(* Further properties of the item pipeline.                                *)
(***************************************************************************)
\* C27: every error of the unit of work is retried, whatever its class: a
\* call ends in an error only after three failed attempts, every failed
\* attempt but the third is followed by one delay and another attempt.
C27_EveryErrorRetried ==
    Called =>
        /\ plast.outcome # "returned" =>
              /\ Len(plast.errs) = max_retries
              /\ plast.attempts = max_retries
        /\ plast.outcome = "returned" =>
              /\ Len(plast.errs) < max_retries
              /\ plast.attempts = Len(plast.errs) + 1
        /\ Len(plast.delays) = IF Len(plast.errs) < max_retries THEN Len(plast.errs)
                               ELSE max_retries - 1

\* An item of unknown type was dropped after three attempts and two delays.
C27_Witness ==
    /\ Called
    /\ plast.outcome = "DropItem"
    /\ plast.errs = <<"unknown_type", "unknown_type", "unknown_type">>
    /\ Len(plast.delays) = 2

\* A step that writes an audit entry or persists an item.
StoreWritten ==
    \/ log' # log
    \/ lists' # lists
    \/ titles' # titles
    \/ volumes' # volumes
    \/ lists_titles' # lists_titles

\* A store write happens only in or after a run of apply_migrations() that
\* returned normally.
WritesFollowMigrations ==
    StoreWritten => (mlast'.op = "apply" /\ ~mlast'.raised)

\* When apply_migrations() raises in open_spider, nothing is logged and the
\* crawl process does not start.
FailedMigrationStopsOpen ==
    (mlast' # mlast /\ mlast'.op = "apply" /\ mlast'.raised) =>
        (log' = log /\ run'.phase = "idle")

\* At a store write no migration is pending.
WritesFindNothingPending ==
    StoreWritten =>
        LET res == get_pending_migrations(dir', tableExists', ledger')
        IN  ~res.raised /\ res.pending = <<>>

\* C28: migrations have run to completion before any item is persisted or
\* any audit entry is written: open_spider applies all pending migrations
\* before its first log write, and when apply_migrations() raises it writes
\* no spider_started entry.
C28_MigrationsBeforeWrites ==
    [][WritesFollowMigrations /\ FailedMigrationStopsOpen /\ WritesFindNothingPending]_vars

\* The ordering alone: writes follow a run of the migrations that returned,
\* and a run that raised is followed by no write.
OpenSpiderOrdering == [][WritesFollowMigrations /\ FailedMigrationStopsOpen]_vars

\* ---------------------------------------------------------------------
\* Properties of SQLManager.update
\* ---------------------------------------------------------------------

\* The rows of the updated table that the call selected.
Matched == {i \in DOMAIN rlast.before[rlast.table] :
               rlast.before[rlast.table][i][rlast.id_field] = rlast.id_value}

UpdatedRecord == rlast.op = "update_record" /\ rlast.raised = "none"

\* C29: update(model_class, instance, id_field, id_value) sets every declared
\* field other than id_field of the rows whose id_field equals id_value to
\* the instance's values, leaves id_field of those rows, every other row and
\* every other table as they were, and when no row matches leaves the store
\* unchanged without raising.
C29_UpdateFrame ==
    UpdatedRecord =>
        LET old == rlast.before[rlast.table]
            new == db[rlast.table]
            set == Range(Fields(rlast.model_class)) \ {rlast.id_field}
        IN  /\ \A t \in Tables \ {rlast.table} : db[t] = rlast.before[t]
            /\ Len(new) = Len(old)
            /\ \A i \in DOMAIN old :
                   IF i \in Matched
                   THEN /\ \A f \in set : new[i][f] = rlast.rec[f]
                        /\ new[i][rlast.id_field] = old[i][rlast.id_field]
                        /\ \A c \in Columns(rlast.table) \ set : new[i][c] = old[i][c]
                   ELSE new[i] = old[i]
            /\ (Matched = {} => db = rlast.before)

\* An update rewrote one row from an instance with another identifier while
\* a second row of the table did not match; and an update matched nothing.
C29_Witness ==
    /\ UpdatedRecord
    /\ Len(db[rlast.table]) = 2
    /\ Cardinality(Matched) = 1
    /\ db # rlast.before
    /\ rlast.rec[rlast.id_field] # rlast.id_value

\* ---------------------------------------------------------------------
\* Frame of the operation-log writes
\* ---------------------------------------------------------------------

\* The call that ends has written to the store through
\* log_scraping_operation alone: every attempt failed before its insert took
\* effect (unknown item type, or a row refused by the UNIQUE key), so the
\* store calls that succeeded are the "started" entries and the final
\* "failed" entry.
LogOnlyCall ==
    /\ plast'.outcome = "DropItem"
    /\ \A i \in DOMAIN plast'.errs : plast'.errs[i] \in {"unique", "unknown_type"}

StatusesKept ==
    /\ \A i \in DOMAIN lists :
           i \in DOMAIN lists' /\ lists'[i].scrape_status = lists[i].scrape_status
    /\ \A i \in DOMAIN titles :
           i \in DOMAIN titles' /\ titles'[i].scrape_status = titles[i].scrape_status

\* C30: writing operation-log entries (started, success or failed) changes
\* only scraping_log: a call whose only successful store calls are log
\* writes leaves lists, titles, volumes and lists_titles exactly as they
\* were while the log grows, and no call changes the status of a list or
\* title that was already stored.
C30_LogWriteChangesOnlyLog ==
    [][/\ LogOnlyCall =>
              /\ lists' = lists
              /\ titles' = titles
              /\ volumes' = volumes
              /\ lists_titles' = lists_titles
              /\ IsPrefix(log, log')
              /\ Len(log') > Len(log)
       /\ StatusesKept]_vars

\* A list item whose key is already stored was refused three times: three
\* "started" entries and one "failed" entry were written.
C30_Witness ==
    /\ plast.outcome = "DropItem"
    /\ plast.item.kind = "list"
    /\ plast.errs = <<"unique", "unique", "unique">>
    /\ Len(log) = plast.logBefore + 4
    /\ log[Len(log)].status = "failed"
    /\ log[Len(log) - 1].status = "started"
    /\ lists # <<>>

\* ---------------------------------------------------------------------
\* Properties of SQLManager.select_by_id
\* ---------------------------------------------------------------------

\* The rows of the table the lookup selected.
LookupHits == {i \in DOMAIN db[rlast.table] :
                  db[rlast.table][i][rlast.id_field] = rlast.id_value}

\* C31: select_by_id(table, id_field, id_value) returns at most one row, as
\* a mapping from the table's column names to values, even when several rows
\* match; it returns the empty result when no row matches; and the store is
\* the same after the call as before it.
C31_SelectByIdAtMostOne ==
    rlast.op = "select" =>
        /\ db = rlast.before
        /\ Len(rlast.result) <= 1
        /\ (LookupHits = {} <=> rlast.result = <<>>)
        /\ \A k \in DOMAIN rlast.result :
               /\ DOMAIN rlast.result[k] = Columns(rlast.table)
               /\ \E i \in LookupHits : rlast.result[k] = db[rlast.table][i]

\* Two rows matched the lookup and one came back.
C31_Witness ==
    /\ rlast.op = "select"
    /\ Cardinality(LookupHits) = 2
    /\ Len(rlast.result) = 1

\* ---------------------------------------------------------------------
\* Outcome of process_item against what it stored
\* ---------------------------------------------------------------------

\* C32: when process_item raises the exhaustion error for an item, none of
\* its attempts has written a row for the item and the item's id has not
\* been added to the processed set: the tables and the processed sets are as
\* they were before the call.
C32_DroppedItemNotPersisted ==
    [][plast'.outcome = "DropItem" =>
          /\ lists' = lists
          /\ titles' = titles
          /\ volumes' = volumes
          /\ lists_titles' = lists_titles
          /\ processed' = processed]_vars

\* ---------------------------------------------------------------------
\* Lists across the close of a run
\* ---------------------------------------------------------------------

\* The step ends a run of the list-discovery spider.
ListsRunCloses ==
    /\ run.spider = "lists"
    /\ run.phase # "idle"
    /\ run'.phase = "idle"

\* C33: a List stored with status pending during a list-discovery run is
\* still pending when that run has closed (so a later run in mode pending
\* selects it): the step that closes the run leaves every pending List
\* pending.
C33_DiscoveredListStaysPending ==
    [][ListsRunCloses =>
          \A i \in DOMAIN lists :
              lists[i].scrape_status = "pending" =>
                  /\ i \in DOMAIN lists'
                  /\ lists'[i].scrape_status = "pending"
                  /\ i \in _get_lists_to_process("pending", lists')]_vars

\* The step is the pipeline's close hook at the end of a publications run
\* that was not interrupted: the last audit entry of the run is written.
PublicationsRunClosesNormally ==
    /\ run.spider = "publications"
    /\ run.phase # "idle"
    /\ run'.phase = "idle"
    /\ log' = Append(log, LogEntry("publications", "spider_finished", 0, "success", ""))

\* C34: every List the publications spider claimed in the run (set to
\* in_progress in parse_list) has status completed or failed once the run
\* has closed normally; none is left in_progress, whether its page held no
\* title or its title requests all failed.
C34_ClaimedListsSettledAtClose ==
    [][PublicationsRunClosesNormally =>
          \A i \in DOMAIN lists :
              lists[i].id \in childWork.parsed =>
                  /\ i \in DOMAIN lists'
                  /\ lists'[i].scrape_status \in {"completed", "failed"}]_vars

\* ---------------------------------------------------------------------
\* Audit entries of one process_item call
\* ---------------------------------------------------------------------

\* The audit entries the last process_item call wrote.
WrittenByCall == (plast.logBefore + 1)..Len(log)

\* C35: every audit entry with status started that process_item wrote for an
\* entity is followed, by the time process_item has returned or raised, by
\* an entry with status success or failed for the same operation_type and
\* entity_id.
C35_StartedEntriesAreClosed ==
    plast.outcome # "none" =>
        \A k \in WrittenByCall :
            log[k].status = "started" =>
                \E j \in WrittenByCall :
                    /\ j > k
                    /\ log[j].status \in {"success", "failed"}
                    /\ log[j].operation_type = log[k].operation_type
                    /\ log[j].entity_id = log[k].entity_id

\* C36: process_item ends in exactly one of two ways: it returns after an
\* attempt that succeeded, or it raises DropItem after the third failed
\* attempt; no other error leaves it, also when the write of the item_failed
\* audit entry fails.
C36_ReturnsOrDropsItem ==
    plast.outcome # "none" =>
        \/ /\ plast.outcome = "returned"
           /\ Len(plast.errs) = plast.attempts - 1
        \/ /\ plast.outcome = "DropItem"
           /\ plast.attempts = max_retries
           /\ Len(plast.errs) = max_retries

\* ---------------------------------------------------------------------
\* Two processes applying migrations side by side
\* ---------------------------------------------------------------------

\* C37: when two processes run apply_migrations() against the same store
\* and directory, in every interleaving each version is in the ledger at
\* most once and each statement of an up script takes effect at most once:
\* no statement has been executed successfully by both processes.
C37_ConcurrentApplyRunsEachScriptOnce ==
    /\ \A i, j \in DOMAIN ledger :
           ledger[i].version = ledger[j].version => i = j
    /\ \A p, q \in Procs :
           p # q => Range(procs[p].ran) \cap Range(procs[q].ran) = {}

====
